---- MODULE Spec2Model ----
(***************************************************************************)
(* Model of the generic insertion-ordered map of orderedmap.go:            *)
(* a hash index  data : K -> *element{value, item}  together with a doubly *)
(* linked list  items{head, tail}  of nodes {value, prev, next}.           *)
(*                                                                         *)
(* Pointers are node addresses; Nil is the nil pointer.  Every allocation   *)
(* gets a fresh address (nalloc counts them).  The heap holds the nodes    *)
(* the program can still reach: a node removed from the list keeps the     *)
(* links list.remove left it with for as long as an iterator closure can   *)
(* reach it, and is reclaimed by the runtime once nothing refers to it.    *)
(*                                                                         *)
(* The type parameters are instantiated as K = a small integer type and    *)
(* V = bool: the code compares keys for equality only and never inspects a *)
(* value.                                                                  *)
(***************************************************************************)
EXTENDS Integers, Sequences, FiniteSets, TLC

\* ---------------------------------------------------------------- bounds
MaxKey   == 2       \* keys are 0..MaxKey (0 is the zero value of K)
MaxNodes == 3       \* nodes ever allocated by Set
NumIters == 2       \* iterator closures alive at the same time

\* ------------------------------------------------------- program constants
Nil       == 0      \* the nil *node
ZeroKey   == 0      \* var key K
ZeroValue == FALSE  \* var def V

Keys   == 0..MaxKey
IterKeys == 0..(MaxKey - 1)     \* the keys of the maps that are iterated
Values == BOOLEAN
Iters  == 1..NumIters

VARIABLES
    data,       \* om.data : present key -> [value, item]
    items,      \* om.items : [head, tail]
    heap,       \* reachable nodes : address -> [value, prev, next]
    nalloc,     \* number of nodes allocated so far
    iter,       \* closures returned by Iterator : i -> [made, curr]
    panicked,   \* a nil dereference ended the program
    last,       \* the most recent call and what it returned
    pre,        \* data, items, heap, iter, ref as they were before that call
    firstSet,   \* while only Set has changed the map: keys in the order first passed to Set
    noDelete,   \* no Delete call has been made so far
    ref,        \* plain map: key -> value of the latest Set not followed by Delete
    obs         \* per closure, while no key was added or removed since its creation:
                \* keys produced, terminal seen, the values at its creation;
                \* and whether a key was removed since its creation
VARIABLE
    gone        \* absent keys that Delete removed: key -> the place it had in the list

vars == <<data, items, heap, nalloc, iter, panicked, last, pre, firstSet, noDelete, ref, obs,
          gone>>

\* ------------------------------------------------------------ list type
\* node[T]{value: v}
node(v) == [value |-> v, prev |-> Nil, next |-> Nil]

\* element[K, V]{value, item}
element(v, n) == [value |-> v, item |-> n]

\* push with the node linked in front of head instead of behind tail
pushFront(lst, hp, n) ==
    IF lst.head = Nil
    THEN [lst |-> [head |-> n, tail |-> n], hp |-> hp]
    ELSE [lst |-> [head |-> n, tail |-> lst.tail],
          hp  |-> [hp EXCEPT ![lst.head].prev = n, ![n].next = lst.head]]

\* push without line 142, lst.tail = n
pushKeepsTail(lst, hp, n) ==
    IF lst.head = Nil
    THEN [lst |-> [head |-> n, tail |-> n], hp |-> hp]
    ELSE [lst |-> lst,
          hp  |-> [hp EXCEPT ![lst.tail].next = n, ![n].prev = lst.tail]]

\* list.push: n is the address of a node already in hp
push(lst, hp, n) ==
    IF lst.head = Nil
    THEN [lst |-> [head |-> n, tail |-> n], hp |-> hp]
    ELSE [lst |-> [head |-> lst.head, tail |-> n],
          hp  |-> [hp EXCEPT ![lst.tail].next = n, ![n].prev = lst.tail]]

\* list.remove without its first if, n.prev.next = n.next
removeKeepsNext(lst, hp, n) ==
    LET p   == hp[n].prev
        x   == hp[n].next
        hp1 == hp
        hp2 == IF x # Nil THEN [hp1 EXCEPT ![x].prev = p] ELSE hp1
        h   == IF n = lst.head THEN x ELSE lst.head
        t   == IF n = lst.tail THEN p ELSE lst.tail
    IN  [lst |-> [head |-> h, tail |-> t], hp |-> hp2]

\* list.remove without its second if, n.next.prev = n.prev
removeKeepsPrev(lst, hp, n) ==
    LET p   == hp[n].prev
        x   == hp[n].next
        hp1 == IF p # Nil THEN [hp EXCEPT ![p].next = x] ELSE hp
        hp2 == hp1
        h   == IF n = lst.head THEN x ELSE lst.head
        t   == IF n = lst.tail THEN p ELSE lst.tail
    IN  [lst |-> [head |-> h, tail |-> t], hp |-> hp2]

\* list.remove without its third if, lst.head = n.next
removeKeepsHead(lst, hp, n) ==
    LET p   == hp[n].prev
        x   == hp[n].next
        hp1 == IF p # Nil THEN [hp EXCEPT ![p].next = x] ELSE hp
        hp2 == IF x # Nil THEN [hp1 EXCEPT ![x].prev = p] ELSE hp1
        h   == lst.head
        t   == IF n = lst.tail THEN p ELSE lst.tail
    IN  [lst |-> [head |-> h, tail |-> t], hp |-> hp2]

\* list.remove without its fourth if, lst.tail = n.prev
removeKeepsTail(lst, hp, n) ==
    LET p   == hp[n].prev
        x   == hp[n].next
        hp1 == IF p # Nil THEN [hp EXCEPT ![p].next = x] ELSE hp
        hp2 == IF x # Nil THEN [hp1 EXCEPT ![x].prev = p] ELSE hp1
        h   == IF n = lst.head THEN x ELSE lst.head
        t   == lst.tail
    IN  [lst |-> [head |-> h, tail |-> t], hp |-> hp2]

\* list.remove: the four ifs in order; n.prev and n.next are read from the
\* node itself, which no statement of remove writes
remove(lst, hp, n) ==
    LET p   == hp[n].prev
        x   == hp[n].next
        hp1 == IF p # Nil THEN [hp EXCEPT ![p].next = x] ELSE hp
        hp2 == IF x # Nil THEN [hp1 EXCEPT ![x].prev = p] ELSE hp1
        h   == IF n = lst.head THEN x ELSE lst.head
        t   == IF n = lst.tail THEN p ELSE lst.tail
    IN  [lst |-> [head |-> h, tail |-> t], hp |-> hp2]

\* ------------------------------------------------------------ OrderedMap
\* New
New == [data |-> <<>>, items |-> [head |-> Nil, tail |-> Nil]]

\* Get that reports a missing key as found
GetFoundZero(d, key) ==
    IF key \in DOMAIN d
    THEN [rv |-> d[key].value, ok |-> TRUE]
    ELSE [rv |-> ZeroValue, ok |-> TRUE]

\* OrderedMap.Get
Get(d, key) ==
    IF key \in DOMAIN d
    THEN [rv |-> d[key].value, ok |-> TRUE]
    ELSE [rv |-> ZeroValue, ok |-> FALSE]

\* Set that moves an updated key to the end of the list
SetMovesToEnd(d, lst, hp, item, key, value) ==
    IF key \in DOMAIN d
    THEN LET d1 == [d EXCEPT ![key].value = value]
             r1 == remove(lst, hp, d[key].item)
             r2 == push(r1.lst, [r1.hp EXCEPT ![d[key].item] = node(key)], d[key].item)
         IN  [data |-> d1, lst |-> r2.lst, hp |-> r2.hp, rv |-> d1[key].value, ok |-> TRUE]
    ELSE LET r == push(lst, (item :> node(key)) @@ hp, item)
         IN  [data |-> (key :> element(value, item)) @@ d, lst |-> r.lst, hp |-> r.hp,
              rv |-> ZeroValue, ok |-> FALSE]

\* Set without the return of line 53: a present key falls through to the insertion
SetAlwaysPushes(d, lst, hp, item, key, value) ==
    LET r == push(lst, (item :> node(key)) @@ hp, item)
    IN  [data |-> (key :> element(value, item)) @@ d, lst |-> r.lst, hp |-> r.hp,
         rv |-> IF key \in DOMAIN d THEN value ELSE ZeroValue, ok |-> key \in DOMAIN d]

\* Set that stores in the index entry the tail as it was before the push
SetStoresOldTail(d, lst, hp, item, key, value) ==
    IF key \in DOMAIN d
    THEN LET d1 == [d EXCEPT ![key].value = value]
         IN  [data |-> d1, lst |-> lst, hp |-> hp, rv |-> d1[key].value, ok |-> TRUE]
    ELSE LET r == push(lst, (item :> node(key)) @@ hp, item)
         IN  [data |-> (key :> element(value, lst.tail)) @@ d, lst |-> r.lst, hp |-> r.hp,
              rv |-> ZeroValue, ok |-> FALSE]

\* Set without line 58, om.data[key] = &element[K, V]{value, item}
SetSkipsIndex(d, lst, hp, item, key, value) ==
    IF key \in DOMAIN d
    THEN LET d1 == [d EXCEPT ![key].value = value]
         IN  [data |-> d1, lst |-> lst, hp |-> hp, rv |-> d1[key].value, ok |-> TRUE]
    ELSE LET r == push(lst, (item :> node(key)) @@ hp, item)
         IN  [data |-> d, lst |-> r.lst, hp |-> r.hp, rv |-> ZeroValue, ok |-> FALSE]

\* OrderedMap.Set; item is the address the allocation of the new node returns.
\* om.data holds pointers to elements: old (line 51) is the pointer stored under
\* key, line 52 writes value through that same pointer, and line 53 reads
\* old.value after the write.
Set(d, lst, hp, item, key, value) ==
    IF key \in DOMAIN d
    THEN LET d1 == [d EXCEPT ![key].value = value]
         IN  [data |-> d1, lst |-> lst, hp |-> hp, rv |-> d1[key].value, ok |-> TRUE]
    ELSE LET r == push(lst, (item :> node(key)) @@ hp, item)
         IN  [data |-> (key :> element(value, item)) @@ d, lst |-> r.lst, hp |-> r.hp,
              rv |-> ZeroValue, ok |-> FALSE]

\* Delete without line 75, delete(om.data, key)
DeleteKeepsEntry(d, lst, hp, key) ==
    IF key \in DOMAIN d
    THEN LET r == remove(lst, hp, d[key].item)
         IN  [data |-> d, lst |-> r.lst, hp |-> r.hp, rv |-> d[key].value, ok |-> TRUE]
    ELSE [data |-> d, lst |-> lst, hp |-> hp, rv |-> ZeroValue, ok |-> FALSE]

\* Delete without line 74, om.items.remove(val.item)
DeleteSkipsRemove(d, lst, hp, key) ==
    IF key \in DOMAIN d
    THEN [data |-> [k \in DOMAIN d \ {key} |-> d[k]], lst |-> lst, hp |-> hp,
          rv |-> d[key].value, ok |-> TRUE]
    ELSE [data |-> d, lst |-> lst, hp |-> hp, rv |-> ZeroValue, ok |-> FALSE]

\* OrderedMap.Delete
Delete(d, lst, hp, key) ==
    IF key \in DOMAIN d
    THEN LET r == remove(lst, hp, d[key].item)
         IN  [data |-> [k \in DOMAIN d \ {key} |-> d[k]], lst |-> r.lst, hp |-> r.hp,
              rv |-> d[key].value, ok |-> TRUE]
    ELSE [data |-> d, lst |-> lst, hp |-> hp, rv |-> ZeroValue, ok |-> FALSE]

\* OrderedMap.Len
Len_(d) == Cardinality(DOMAIN d)

\* OrderedMap.Iterator: the closure's captured variable
Iterator(lst) == lst.head

\* the closure with the test curr.next == nil in place of curr == nil
nextStopsEarly(d, hp, curr) ==
    IF curr = Nil \/ hp[curr].next = Nil
    THEN [key |-> ZeroKey, val |-> ZeroValue, ok |-> FALSE, curr |-> Nil, panic |-> FALSE]
    ELSE LET key == hp[curr].value
         IN  IF key \in DOMAIN d
             THEN [key |-> key, val |-> d[key].value, ok |-> TRUE,
                   curr |-> hp[curr].next, panic |-> FALSE]
             ELSE [key |-> key, val |-> ZeroValue, ok |-> FALSE, curr |-> curr, panic |-> TRUE]

\* the closure with lines 114 and 115 swapped: the value is looked up under the
\* key of the node curr has moved to
nextValueOfSuccessor(d, hp, curr) ==
    IF curr = Nil
    THEN [key |-> ZeroKey, val |-> ZeroValue, ok |-> FALSE, curr |-> Nil, panic |-> FALSE]
    ELSE LET key == hp[curr].value
             nx  == hp[curr].next
         IN  IF nx # Nil /\ hp[nx].value \in DOMAIN d
             THEN [key |-> key, val |-> d[hp[nx].value].value, ok |-> TRUE,
                   curr |-> nx, panic |-> FALSE]
             ELSE [key |-> key, val |-> ZeroValue, ok |-> FALSE, curr |-> curr, panic |-> TRUE]

\* the closure returned by Iterator; om.data[key].value on a key without an
\* entry dereferences nil
next(d, hp, curr) ==
    IF curr = Nil
    THEN [key |-> ZeroKey, val |-> ZeroValue, ok |-> FALSE, curr |-> Nil, panic |-> FALSE]
    ELSE LET key == hp[curr].value
         IN  IF key \in DOMAIN d
             THEN [key |-> key, val |-> d[key].value, ok |-> TRUE,
                   curr |-> hp[curr].next, panic |-> FALSE]
             ELSE [key |-> key, val |-> ZeroValue, ok |-> FALSE, curr |-> curr, panic |-> TRUE]

\* one curr shared by all the closures
advanceShared(its, i, c) == [j \in DOMAIN its |-> [its[j] EXCEPT !.curr = c]]

\* the closures after closure i has run once: each closure owns its curr
advance(its, i, c) == [its EXCEPT ![i].curr = c]

\* ------------------------------------------------------------- runtime
\* the nodes reachable from the map, the list and the closures
RECURSIVE Reach(_, _)
Reach(S, hp) ==
    LET T == (S \cup {hp[n].prev : n \in S} \cup {hp[n].next : n \in S}) \ {Nil}
    IN  IF T = S THEN S ELSE Reach(T, hp)

Roots(d, lst, its) ==
    ({lst.head, lst.tail} \cup {d[k].item : k \in DOMAIN d}
        \cup {its[i].curr : i \in {j \in DOMAIN its : its[j].made}}) \ {Nil}

\* the heap once the unreachable nodes are reclaimed
Collect(d, lst, its, hp) == [n \in Reach(Roots(d, lst, its), hp) |-> hp[n]]

\* ------------------------------------------------------- full iteration
\* for k, v, ok := next(); ok; k, v, ok = next() { ... } on a closure whose
\* captured variable is curr; the key -1 marks a run that does not end normally
Broken == << <<0 - 1, ZeroValue>> >>

RECURSIVE Drain(_, _, _, _)
Drain(d, hp, curr, fuel) ==
    LET r == next(d, hp, curr)
    IN  IF r.panic \/ fuel = 0 THEN Broken
        ELSE IF ~r.ok THEN <<>>
        ELSE << <<r.key, r.val>> >> \o Drain(d, hp, r.curr, fuel - 1)

Rest(d, hp, curr) == Drain(d, hp, curr, Cardinality(DOMAIN hp) + 1)

FullIteration(d, lst, hp) == Rest(d, hp, Iterator(lst))

\* the addresses met from n on by following the link sel ("next" or "prev"),
\* at most fuel of them
RECURSIVE Walk(_, _, _, _)
Walk(hp, n, sel, fuel) ==
    IF n = Nil \/ fuel = 0 THEN <<>>
    ELSE <<n>> \o Walk(hp, IF sel = "next" THEN hp[n].next ELSE hp[n].prev, sel, fuel - 1)

\* head, head.next, ... and tail, tail.prev, ...
Forward(lst, hp)  == Walk(hp, lst.head, "next", Cardinality(DOMAIN hp) + 1)
Backward(lst, hp) == Walk(hp, lst.tail, "prev", Cardinality(DOMAIN hp) + 1)

Reverse(s) == [j \in 1..Len(s) |-> s[Len(s) + 1 - j]]

KeysOf(s) == [j \in 1..Len(s) |-> s[j][1]]
Range(s)  == {s[j] : j \in 1..Len(s)}
NoDup(s)  == \A a, b \in 1..Len(s) : s[a] = s[b] => a = b

\* the place of node n in the list, counted from head; 0 for a node not in it
PlaceOf(lst, hp, n) ==
    LET f == Forward(lst, hp)
    IN  IF n \in Range(f) THEN CHOOSE j \in 1..Len(f) : f[j] = n ELSE 0

\* ------------------------------------------------------------- the calls
NoCall == [op |-> "New", key |-> ZeroKey, value |-> ZeroValue, rv |-> ZeroValue,
           ok |-> FALSE, n |-> 0, it |-> 0, rk |-> ZeroKey]

Snapshot == [data |-> data, items |-> items, heap |-> heap, iter |-> iter, ref |-> ref,
             gone |-> gone]

FreshObs == [out |-> <<>>, sawEnd |-> FALSE, struct |-> FALSE, snap |-> <<>>, del |-> FALSE]

SpoiltObs == [FreshObs EXCEPT !.struct = TRUE]

Init ==
    /\ data = New.data
    /\ items = New.items
    /\ heap = <<>>
    /\ nalloc = 0
    /\ iter = [i \in Iters |-> [made |-> FALSE, curr |-> Nil]]
    /\ panicked = FALSE
    /\ last = NoCall
    /\ pre = [data |-> New.data, items |-> New.items, heap |-> <<>>,
              iter |-> [i \in Iters |-> [made |-> FALSE, curr |-> Nil]], ref |-> <<>>,
              gone |-> <<>>]
    /\ gone = <<>>
    /\ firstSet = <<>>
    /\ noDelete = TRUE
    /\ ref = <<>>
    /\ obs = [i \in Iters |-> FreshObs]

\* what the closures' observers note when Set or Delete returns r for key
Touch(r, key) ==
    [i \in Iters |->
        IF ~iter[i].made THEN obs[i]
        ELSE IF obs[i].struct \/ DOMAIN r.data # DOMAIN data
             THEN [SpoiltObs EXCEPT !.del = obs[i].del \/ key \notin DOMAIN r.data]
        ELSE obs[i]]

CallGet(key) ==
    /\ ~panicked
    /\ LET r == Get(data, key)
       IN  last' = [NoCall EXCEPT !.op = "Get", !.key = key, !.rv = r.rv, !.ok = r.ok]
    /\ pre' = Snapshot
    /\ UNCHANGED <<data, items, heap, nalloc, iter, panicked, firstSet, noDelete, ref, obs, gone>>

CallSet(key, value) ==
    /\ ~panicked
    /\ key \in DOMAIN data \/ nalloc < MaxNodes
    /\ LET r == Set(data, items, heap, nalloc + 1, key, value)
       IN  /\ data' = r.data
           /\ items' = r.lst
           /\ heap' = r.hp
           /\ nalloc' = IF key \in DOMAIN data THEN nalloc ELSE nalloc + 1
           /\ last' = [NoCall EXCEPT !.op = "Set", !.key = key, !.value = value,
                                     !.rv = r.rv, !.ok = r.ok]
           /\ obs' = Touch(r, key)
    /\ pre' = Snapshot
    /\ firstSet' = IF noDelete /\ key \notin Range(firstSet) THEN Append(firstSet, key)
                   ELSE firstSet
    /\ ref' = (key :> value) @@ ref
    /\ gone' = [k \in DOMAIN gone \ {key} |-> gone[k]]
    /\ UNCHANGED <<iter, panicked, noDelete>>

CallDelete(key) ==
    /\ ~panicked
    /\ LET r == Delete(data, items, heap, key)
       IN  /\ data' = r.data
           /\ items' = r.lst
           /\ heap' = Collect(r.data, r.lst, iter, r.hp)
           /\ last' = [NoCall EXCEPT !.op = "Delete", !.key = key, !.rv = r.rv, !.ok = r.ok]
           /\ obs' = Touch(r, key)
    /\ pre' = Snapshot
    /\ noDelete' = FALSE
    /\ firstSet' = <<>>
    /\ ref' = [k \in DOMAIN ref \ {key} |-> ref[k]]
    /\ gone' = IF key \in DOMAIN data
               THEN (key :> PlaceOf(items, heap, data[key].item)) @@ gone
               ELSE gone
    /\ UNCHANGED <<nalloc, iter, panicked>>

CallLen ==
    /\ ~panicked
    /\ last' = [NoCall EXCEPT !.op = "Len", !.n = Len_(data)]
    /\ pre' = Snapshot
    /\ UNCHANGED <<data, items, heap, nalloc, iter, panicked, firstSet, noDelete, ref, obs, gone>>

CallIterator(i) ==
    /\ ~panicked
    /\ iter' = [iter EXCEPT ![i] = [made |-> TRUE, curr |-> Iterator(items)]]
    /\ heap' = Collect(data, items, iter', heap)
    /\ obs' = [obs EXCEPT ![i] = [FreshObs EXCEPT !.snap = [k \in DOMAIN data |-> data[k].value]]]
    /\ last' = [NoCall EXCEPT !.op = "Iterator", !.it = i]
    /\ pre' = Snapshot
    /\ UNCHANGED <<data, items, nalloc, panicked, firstSet, noDelete, ref, gone>>

\* an advance that unlinks what it has visited: head follows the cursor
CallNextConsumes(i) ==
    /\ ~panicked
    /\ iter[i].made
    /\ LET r == next(data, heap, iter[i].curr)
       IN  /\ panicked' = r.panic
           /\ iter' = advance(iter, i, r.curr)
           /\ items' = [items EXCEPT !.head = r.curr]
           /\ heap' = Collect(data, items', iter', heap)
           /\ last' = [NoCall EXCEPT !.op = IF r.panic THEN "panic" ELSE "next",
                                     !.it = i, !.rk = r.key, !.rv = r.val, !.ok = r.ok]
           /\ obs' = IF obs[i].struct THEN obs
                     ELSE [obs EXCEPT ![i].out = IF r.ok THEN Append(@, r.key) ELSE @,
                                      ![i].sawEnd = @ \/ (~r.ok /\ ~r.panic)]
    /\ pre' = Snapshot
    /\ UNCHANGED <<data, nalloc, firstSet, noDelete, ref, gone>>

CallNext(i) ==
    /\ ~panicked
    /\ iter[i].made
    /\ LET r == next(data, heap, iter[i].curr)
       IN  /\ panicked' = r.panic
           /\ iter' = advance(iter, i, r.curr)
           /\ heap' = Collect(data, items, iter', heap)
           /\ last' = [NoCall EXCEPT !.op = IF r.panic THEN "panic" ELSE "next",
                                     !.it = i, !.rk = r.key, !.rv = r.val, !.ok = r.ok]
           /\ obs' = IF obs[i].struct THEN obs
                     ELSE [obs EXCEPT ![i].out = IF r.ok THEN Append(@, r.key) ELSE @,
                                      ![i].sawEnd = @ \/ (~r.ok /\ ~r.panic)]
    /\ pre' = Snapshot
    /\ UNCHANGED <<data, items, nalloc, firstSet, noDelete, ref, gone>>

\* the map alone: no iterator closure is ever created
NextMap ==
    \/ \E key \in Keys : CallGet(key)
    \/ \E key \in Keys, value \in Values : CallSet(key, value)
    \/ \E key \in Keys : CallDelete(key)
    \/ CallLen

Spec == Init /\ [][NextMap]_vars

\* ------------------------------------------------- iterating a built map
\* for i := 0; i < length; i++ { om.Set(keys[i], vals[i]) } on a new map
RECURSIVE Build(_)
Build(s) ==
    IF s = <<>>
    THEN [data |-> New.data, items |-> New.items, heap |-> <<>>, nalloc |-> 0,
          firstSet |-> <<>>]
    ELSE LET n     == Len(s)
             b     == Build(SubSeq(s, 1, n - 1))
             key   == s[n][1]
             r     == Set(b.data, b.items, b.heap, b.nalloc + 1, key, s[n][2])
         IN  [data |-> r.data, items |-> r.lst, heap |-> r.hp,
              nalloc |-> IF r.ok THEN b.nalloc ELSE b.nalloc + 1,
              firstSet |-> IF r.ok THEN b.firstSet ELSE Append(b.firstSet, key)]

BuildSeqs == UNION {[1..n -> IterKeys \X Values] : n \in 0..MaxNodes}

InitBuilt ==
    \E s \in BuildSeqs :
        LET b == Build(s)
        IN  /\ data = b.data
            /\ items = b.items
            /\ heap = b.heap
            /\ nalloc = b.nalloc
            /\ firstSet = b.firstSet
            /\ ref = [k \in DOMAIN b.data |-> b.data[k].value]
            /\ pre = [data |-> b.data, items |-> b.items, heap |-> b.heap,
                      iter |-> [i \in Iters |-> [made |-> FALSE, curr |-> Nil]],
                      ref |-> [k \in DOMAIN b.data |-> b.data[k].value], gone |-> <<>>]
            /\ gone = <<>>
            /\ iter = [i \in Iters |-> [made |-> FALSE, curr |-> Nil]]
            /\ panicked = FALSE
            /\ last = NoCall
            /\ noDelete = TRUE
            /\ obs = [i \in Iters |-> FreshObs]

\* several closures over a map that is not changed any more
NextIter ==
    \/ \E i \in Iters : CallIterator(i)
    \/ \E i \in Iters : CallNext(i)

SpecIter == InitBuilt /\ [][NextIter]_vars

\* one closure over a map that Set and Delete keep changing
NextMut ==
    \/ \E key \in IterKeys, value \in Values : CallSet(key, value)
    \/ \E key \in IterKeys : CallDelete(key)
    \/ CallIterator(1)
    \/ CallNext(1)

SpecMut == Init /\ [][NextMut]_vars

\* every operation: one closure over a map that Get, Set, Delete and Len work on
NextAll ==
    \/ \E key \in IterKeys : CallGet(key)
    \/ \E key \in IterKeys, value \in Values : CallSet(key, value)
    \/ \E key \in IterKeys : CallDelete(key)
    \/ CallLen
    \/ CallIterator(1)
    \/ CallNext(1)

SpecAll == Init /\ [][NextAll]_vars

\* ================================================================ claims
\* the sequence a fresh iterator produces, before and after the last call
IterNow == FullIteration(data, items, heap)
IterPre == FullIteration(pre.data, pre.items, pre.heap)

SetOnPresent == last.op = "Set" /\ last.key \in DOMAIN pre.data
SetOnAbsent  == last.op = "Set" /\ last.key \notin DOMAIN pre.data
DeleteOnPresent == last.op = "Delete" /\ last.key \in DOMAIN pre.data

\* C1: Set(key, value) on a present key returns (previousValue, true), where
\* previousValue is the value stored under key immediately before the call.
C1_SetReturnsPrevious ==
    SetOnPresent => last.ok /\ last.rv = pre.data[last.key].value

\* C2: Set on a present key changes only the value stored for that key: the
\* present keys, Len, the other keys' values, head, tail and every node's links
\* are as before, so the key keeps its position in iteration order.
C2_SetOverwriteFrame ==
    SetOnPresent =>
        /\ DOMAIN data = DOMAIN pre.data
        /\ Len_(data) = Len_(pre.data)
        /\ \A k \in DOMAIN data \ {last.key} : data[k] = pre.data[k]
        /\ data[last.key] = [pre.data[last.key] EXCEPT !.value = last.value]
        /\ items = pre.items
        /\ heap = pre.heap
        /\ KeysOf(IterNow) = KeysOf(IterPre)

C2_Witness ==
    /\ SetOnPresent
    /\ last.value # pre.data[last.key].value
    /\ Len_(data) >= 2
    /\ data[last.key].item # items.tail

\* C3: after Set calls only, a full iteration with a fresh iterator yields each
\* distinct key exactly once, in the order the keys were first passed to Set.
C3_SetOnlyOrder ==
    noDelete => KeysOf(IterNow) = firstSet

C3_Witness ==
    /\ noDelete
    /\ Len(firstSet) >= 3
    /\ SetOnPresent
    /\ last.key = firstSet[1]
    /\ last.value # pre.data[last.key].value

\* C4: the map refines a plain key-to-value map: for every key k, Get(k) is
\* (v, true) with v the value of the latest Set(k, v) not followed by Delete(k),
\* or (zero, false) if there is none; Len() is the number of keys Get finds.
C4_RefinesPlainMap ==
    /\ \A k \in Keys :
          Get(data, k) = IF k \in DOMAIN ref THEN [rv |-> ref[k], ok |-> TRUE]
                         ELSE [rv |-> ZeroValue, ok |-> FALSE]
    /\ Len_(data) = Cardinality({k \in Keys : Get(data, k).ok})
    /\ last.op = "Get" =>
          /\ last.ok = (last.key \in DOMAIN ref)
          /\ last.rv = IF last.key \in DOMAIN ref THEN ref[last.key] ELSE ZeroValue
    /\ last.op = "Len" => last.n = Cardinality(DOMAIN ref)

C4_Witness ==
    /\ last.op = "Get"
    /\ last.ok
    /\ last.rv # ZeroValue
    /\ ~noDelete
    /\ nalloc > Len_(data)
    /\ data[last.key].item = nalloc

\* C5: Set on an absent key returns (zeroValue, false), increases Len() by
\* exactly 1 and makes key the last pair of a following full iteration, the
\* order of the keys present before being unchanged.
C5_SetNewAppends ==
    SetOnAbsent =>
        /\ ~last.ok
        /\ last.rv = ZeroValue
        /\ Len_(data) = Len_(pre.data) + 1
        /\ IterNow = Append(IterPre, <<last.key, last.value>>)

C5_Witness ==
    /\ SetOnAbsent
    /\ Len_(pre.data) >= 2
    /\ last.value # ZeroValue

\* C6: Delete on a present key returns (value, true) with the value most
\* recently stored for key, decreases Len() by exactly 1, makes a following
\* Get(key) return (zeroValue, false), and the key is in no later full iteration.
C6_DeletePresent ==
    DeleteOnPresent =>
        /\ last.ok
        /\ last.rv = pre.ref[last.key]
        /\ Len_(data) = Len_(pre.data) - 1
        /\ Get(data, last.key) = [rv |-> ZeroValue, ok |-> FALSE]
        /\ Range(KeysOf(IterNow)) = DOMAIN pre.data \ {last.key}

C6_Witness ==
    /\ DeleteOnPresent
    /\ Len_(pre.data) >= 2
    /\ last.rv # ZeroValue

\* C7: Get and Delete on a key that is not present return (zeroValue, false) and
\* leave the whole map unchanged: Len(), the stored values, head, tail and links.
C7_AbsentKeyNoEffect ==
    (last.op \in {"Get", "Delete"} /\ last.key \notin DOMAIN pre.data) =>
        /\ ~last.ok
        /\ last.rv = ZeroValue
        /\ data = pre.data
        /\ items = pre.items
        /\ heap = pre.heap

C7_Witness ==
    /\ last.op = "Delete"
    /\ last.key \notin DOMAIN pre.data
    /\ Len_(data) >= 1
    /\ nalloc > Len_(data)

\* closure i was created, and since then no key was added or removed and every
\* key has the value it had
Clean(i) ==
    /\ iter[i].made
    /\ ~obs[i].struct
    /\ \A k \in DOMAIN data : data[k].value = obs[i].snap[k]

\* what closure i has produced followed by what it is still to produce
Whole(i) == obs[i].out \o KeysOf(Rest(data, heap, iter[i].curr))

\* C8: on a map that is not modified after the iterator's creation, an iterator
\* over n entries returns exactly n pairs with ok = true, each present key once
\* with its current value, then the terminal signal on call n+1 and on every
\* later call; for n = 0 the first call is terminal.
C8_IteratorYieldsAll ==
    \A i \in Iters :
        Clean(i) =>
            LET o == obs[i].out
                r == next(data, heap, iter[i].curr)
            IN  /\ NoDup(o)
                /\ Range(o) \subseteq DOMAIN data
                /\ ~r.panic
                /\ r.ok = (Len(o) < Len_(data))
                /\ obs[i].sawEnd => Len(o) = Len_(data)
                /\ (last.op = "next" /\ last.it = i) =>
                      IF last.ok
                      THEN last.rk = o[Len(o)] /\ last.rv = data[last.rk].value
                      ELSE obs[i].sawEnd /\ last.rk = ZeroKey /\ last.rv = ZeroValue

C8_Witness ==
    /\ Clean(1)
    /\ obs[1].sawEnd
    /\ Len(obs[1].out) = 2
    /\ last.op = "next"
    /\ ~last.ok
    /\ nalloc > 2

\* C9: several iterators over the same unmodified map advance independently:
\* under any interleaving each produces the complete insertion-ordered sequence
\* it would produce alone, and advancing one never changes the next result of
\* another.
C9_IndependentIterators ==
    /\ \A j \in Iters :
          iter[j].made =>
              /\ Whole(j) = KeysOf(IterNow)
              /\ obs[j].sawEnd => obs[j].out = KeysOf(IterNow)
    /\ last.op = "next" =>
          /\ last.ok => last.rv = data[last.rk].value
          /\ \A j \in Iters \ {last.it} :
                /\ iter[j] = pre.iter[j]
                /\ next(data, heap, iter[j].curr) = next(pre.data, pre.heap, pre.iter[j].curr)

C9_Witness ==
    /\ iter[1].made
    /\ iter[2].made
    /\ Len(obs[1].out) = 2
    /\ Len(obs[2].out) = 1
    /\ last.op = "next"
    /\ last.it = 1
    /\ pre.iter[2].curr = iter[2].curr
    /\ pre.iter[1].curr = iter[2].curr

\* C10: an iterator resolves values at visit time: a value Set overwrites after
\* the iterator's creation and before the visit of its key is the value the
\* iterator yields for that key, and overwrites change neither the keys it yields
\* nor their order.
C10_ValueAtVisitTime ==
    /\ (last.op = "next" /\ last.ok) =>
          /\ last.rk \in DOMAIN pre.ref
          /\ last.rv = pre.ref[last.rk]
    /\ \A i \in Iters :
          (iter[i].made /\ ~obs[i].struct) => Whole(i) = KeysOf(IterNow)

C10_Witness ==
    /\ last.op = "next"
    /\ last.ok
    /\ last.it = 1
    /\ ~obs[1].struct
    /\ Len(obs[1].out) = 2
    /\ last.rv # obs[1].snap[last.rk]

\* C11 as stated: no call fails, an iterator advance included, also when Set or
\* Delete calls were made between the iterator's creation and that advance.
C11_NoOperationFails == ~panicked

\* C11 as amended: no call fails and an iterator advance returns a pair or the
\* terminal signal, also when Set calls were made between the iterator's creation
\* and that advance, provided no Delete removed a key in between.
C11_FailsOnlyAfterDelete ==
    /\ panicked => (last.op = "panic" /\ obs[last.it].del)
    /\ \A i \in Iters :
          (iter[i].made /\ ~obs[i].del) => ~next(data, heap, iter[i].curr).panic
    /\ last.op = "next" => (last.ok \/ (last.rk = ZeroKey /\ last.rv = ZeroValue))

C11_Witness ==
    /\ last.op = "next"
    /\ last.ok
    /\ obs[1].struct
    /\ ~obs[1].del
    /\ last.rk \notin DOMAIN obs[1].snap
    /\ Len_(data) = 2

\* the keys held by the nodes met from head on
ListKeys == [j \in 1..Len(Forward(items, heap)) |-> heap[Forward(items, heap)[j]].value]

\* C12: the index and the list correspond one to one: every key of the index is held
\* by exactly one node reachable from head, every such node holds a key of the index,
\* and the number of reachable nodes is Len().
C12_IndexListCorrespond ==
    /\ \A k \in DOMAIN data :
          Cardinality({j \in 1..Len(ListKeys) : ListKeys[j] = k}) = 1
    /\ \A j \in 1..Len(ListKeys) : ListKeys[j] \in DOMAIN data
    /\ Len(ListKeys) = Len_(data)

\* two keys left after a key was removed from a map of three
C12_Witness ==
    /\ last.op = "Delete"
    /\ DeleteOnPresent
    /\ Len_(pre.data) = 3
    /\ Len_(data) = 2
    /\ Len(ListKeys) = 2

\* no link of a node leads out of the heap
LinksClosed ==
    \A n \in DOMAIN heap : /\ heap[n].prev \in DOMAIN heap \cup {Nil}
                            /\ heap[n].next \in DOMAIN heap \cup {Nil}

\* C13: the list is a well-formed doubly linked list: following next from head meets
\* the same nodes as following prev from tail, in reverse order; head has no prev and
\* tail has no next; n.next.prev = n for every node n that has a next.
C13_WellFormedList ==
    /\ (items.head = Nil) = (items.tail = Nil)
    /\ LinksClosed
    /\ items.head # Nil => heap[items.head].prev = Nil
    /\ items.tail # Nil => heap[items.tail].next = Nil
    /\ Forward(items, heap) = Reverse(Backward(items, heap))
    /\ Len(Forward(items, heap)) <= Cardinality(DOMAIN heap)
    /\ \A j \in 1..Len(Forward(items, heap)) :
          LET n == Forward(items, heap)[j]
          IN  heap[n].next # Nil => heap[heap[n].next].prev = n

\* the middle node of a list of three was removed
C13_Witness ==
    /\ last.op = "Delete"
    /\ DeleteOnPresent
    /\ pre.heap[pre.data[last.key].item].prev # Nil
    /\ pre.heap[pre.data[last.key].item].next # Nil
    /\ Len(Forward(items, heap)) = 2

\* C14: the index has an entry for k exactly when k is present; the entry's item is
\* a node reachable from head whose key is k; the node Delete hands to remove is a
\* member of the list.
C14_ItemIsMemberNode ==
    /\ DOMAIN data = DOMAIN ref
    /\ \A k \in DOMAIN data :
          /\ data[k].item \in Range(Forward(items, heap))
          /\ heap[data[k].item].value = k
    /\ DeleteOnPresent =>
          pre.data[last.key].item \in Range(Forward(pre.items, pre.heap))

\* the tail of a list of two was handed to remove, the other key stays
C14_Witness ==
    /\ last.op = "Delete"
    /\ DeleteOnPresent
    /\ Len_(pre.data) = 2
    /\ pre.data[last.key].item = pre.items.tail
    /\ \E k \in DOMAIN data : data[k].item = items.head

\* the sequence s without the pairs of key
Without(s, key) == SelectSeq(s, LAMBDA e : e[1] # key)

\* C15: after Delete of a present key a full iteration is the iteration before the
\* call with that key's pair left out, the others in the same relative order with
\* their values, whether the node was head, tail, interior or the only node.
C15_DeleteKeepsOthers ==
    DeleteOnPresent =>
        /\ IterPre # Broken
        /\ \E j \in 1..Len(IterPre) : IterPre[j][1] = last.key
        /\ IterNow = Without(IterPre, last.key)
        /\ Len(IterNow) = Len(IterPre) - 1
        /\ \A k \in DOMAIN data : Get(data, k) = Get(pre.data, k)

\* the head of a list of three was removed
C15_Witness ==
    /\ last.op = "Delete"
    /\ DeleteOnPresent
    /\ Len(IterPre) = 3
    /\ IterPre[1][1] = last.key
    /\ Len(IterNow) = 2

\* Set of a key that an earlier Delete removed and that was not set again since
SetOnDeleted == last.op = "Set" /\ last.key \in DOMAIN pre.gone

\* C16: a key that was deleted and is then Set again is a new key: Set returns
\* (zeroValue, false) and the key becomes the last element of the iteration order,
\* whatever place it had before.
C16_ReinsertedKeyIsNew ==
    SetOnDeleted =>
        /\ ~last.ok
        /\ last.rv = ZeroValue
        /\ IterNow = Append(IterPre, <<last.key, last.value>>)
        /\ data[last.key].item \notin DOMAIN pre.heap

\* a key that was first of the list when deleted comes back as second and last
C16_Witness ==
    /\ last.op = "Set"
    /\ SetOnDeleted
    /\ pre.gone[last.key] = 1
    /\ Len(IterNow) = 2
    /\ IterNow[2][1] = last.key

\* C17: Delete of a present key changes, among the remaining nodes, only the next of
\* the removed node's predecessor and the prev of its successor, and head or tail
\* when the removed node was that end; Set of a new key changes only the old tail's
\* next, the new node's prev, tail, and head when the list was empty. Every other
\* link is as it was.
C17_OnlyNeighbourLinksChange ==
    /\ DeleteOnPresent =>
          LET n == pre.data[last.key].item
              p == pre.heap[n].prev
              x == pre.heap[n].next
          IN  /\ DOMAIN heap = DOMAIN pre.heap \ {n}
              /\ \A m \in DOMAIN heap :
                    /\ heap[m].value = pre.heap[m].value
                    /\ heap[m].next = IF m = p THEN x ELSE pre.heap[m].next
                    /\ heap[m].prev = IF m = x THEN p ELSE pre.heap[m].prev
              /\ items.head = IF n = pre.items.head THEN x ELSE pre.items.head
              /\ items.tail = IF n = pre.items.tail THEN p ELSE pre.items.tail
    /\ SetOnAbsent =>
          LET n == data[last.key].item
              t == pre.items.tail
          IN  /\ n \notin DOMAIN pre.heap
              /\ DOMAIN heap = DOMAIN pre.heap \cup {n}
              /\ \A m \in DOMAIN pre.heap :
                    /\ heap[m].value = pre.heap[m].value
                    /\ heap[m].prev = pre.heap[m].prev
                    /\ heap[m].next = IF m = t THEN n ELSE pre.heap[m].next
              /\ heap[n] = [value |-> last.key, prev |-> t, next |-> Nil]
              /\ items.tail = n
              /\ items.head = IF pre.items.head = Nil THEN n ELSE pre.items.head

\* a third node was pushed behind two others, the first of them untouched
C17_Witness ==
    /\ last.op = "Set"
    /\ SetOnAbsent
    /\ pre.items.head # Nil
    /\ pre.items.head # pre.items.tail
    /\ heap[pre.items.head] = pre.heap[pre.items.head]
    /\ heap[pre.items.tail].next = items.tail

\* the last call was one of the reading operations
ReadCall == last.op \in {"Get", "Len", "Iterator", "next", "panic"}

\* C18: Get, Len, the creation of an iterator and the advance of an iterator do not
\* modify the map: the keys, the values, head, tail and every node's prev and next
\* are the same before and after.
C18_ReadsChangeNothing ==
    ReadCall =>
        /\ data = pre.data
        /\ items = pre.items
        /\ ref = pre.ref
        /\ Forward(items, heap) = Forward(pre.items, pre.heap)
        /\ \A n \in Range(Forward(pre.items, pre.heap)) : heap[n] = pre.heap[n]
        /\ DOMAIN heap \subseteq DOMAIN pre.heap
        /\ \A n \in DOMAIN heap : heap[n] = pre.heap[n]
        /\ IterNow = IterPre

\* an advance over a map changed since the closure was made, leaving behind a node
\* that is no longer in the list
C18_Witness ==
    /\ last.op = "next"
    /\ last.ok
    /\ obs[1].struct
    /\ DOMAIN heap # DOMAIN pre.heap
    /\ Len_(data) = 2

\* C19: head is absent exactly when tail is absent, exactly when Len() = 0; head and
\* tail are the same node exactly when Len() <= 1; a map all of whose keys were
\* deleted is like a new one: Len() = 0, a fresh iterator ends at once, and the next
\* Set makes its node both head and tail.
C19_EmptyAndSingleton ==
    /\ (items.head = Nil) = (Len_(data) = 0)
    /\ (items.tail = Nil) = (Len_(data) = 0)
    /\ (items.head = items.tail) = (Len_(data) <= 1)
    /\ Len_(data) = 0 =>
          /\ data = New.data
          /\ items = New.items
          /\ ~next(data, heap, Iterator(items)).ok
          /\ ~next(data, heap, Iterator(items)).panic
          /\ IterNow = <<>>
    /\ (SetOnAbsent /\ Len_(pre.data) = 0) =>
          /\ items.head = data[last.key].item
          /\ items.tail = data[last.key].item
          /\ heap[items.head] = node(last.key)

\* two keys were set and both deleted, then a key is set on the emptied map
C19_Witness ==
    /\ last.op = "Set"
    /\ SetOnAbsent
    /\ Len_(pre.data) = 0
    /\ Cardinality(DOMAIN pre.gone) = 2
    /\ items.head = items.tail
    /\ items.head # Nil

====
